---------------------------- MODULE Spec2Model ----------------------------
(***************************************************************************)
(* Model of merge_packages.py: merge() folds the parsed package.xml        *)
(* documents into types_dict / package_names / max_version / template and  *)
(* renders the merged package into the template.                           *)
(*                                                                         *)
(* Python values are modelled as follows.                                  *)
(*   - an optional dict key, and None, is a sequence of length 0 or 1:     *)
(*     <<>> is "key absent" / None, <<v>> is the value v;                  *)
(*   - a dict is the sequence of its entries in insertion order;           *)
(*   - a value that is either one thing or a list of them carries a kind:  *)
(*     [kind |-> "dict", rec |-> r] / [kind |-> "list", items |-> s] for   *)
(*     the types tag, [kind |-> "str", str |-> m] / [kind |-> "list", ...] *)
(*     for the members tag;                                                *)
(*   - a version string is a decimal literal [neg, whole, frac], a float   *)
(*     is its value in hundredths;                                         *)
(*   - a multi-line string is the sequence of its lines.                   *)
(***************************************************************************)
EXTENDS Integers, Sequences, FiniteSets, TLC

VARIABLES packages, i, types_dict, package_names, max_version, template,
          pc, error, output, previous

vars == <<packages, i, types_dict, package_names, max_version, template,
          pc, error, output, previous>>

\* Longest input sequence explored.
MaxDocs == 3

-----------------------------------------------------------------------------
(* Strings and their order.                                                *)

\* Every string of the model, in ascending code-point order (Python's str
\* order: upper case before lower case).
Lexicon ==
    <<"A", "ApexClass", "B", "Bar", "Foo", "Layout", "Merged_Package", "bar">>

Rank(s) == CHOOSE k \in 1..Len(Lexicon) : Lexicon[k] = s

\* Python's  a < b  on str.
StrLess(a, b) == Rank(a) < Rank(b)

RECURSIVE Insert(_, _)
Insert(x, s) ==
    IF s = <<>> THEN <<x>>
    ELSE IF StrLess(x, s[1]) THEN <<x>> \o s
    ELSE <<s[1]>> \o Insert(x, Tail(s))

RECURSIVE SortedOf(_)
SortedOf(s) ==
    IF s = <<>> THEN <<>>
    ELSE Insert(s[Len(s)], SortedOf(SubSeq(s, 1, Len(s) - 1)))

\* A sort left out: the list stays as it was built.
ListSortSkipped(s) == s

\* list.sort() on a list of str: ascending, duplicates kept.
ListSort(s) == SortedOf(s)

\* The member strings, and the orders in which a set of them may be iterated
\* (str hashes are salted per process, so list(set) may come in any order).
MemberNames == {"Bar", "Foo", "bar"}

HashOrders ==
    {h \in [1..Cardinality(MemberNames) -> MemberNames] :
        \A a, b \in DOMAIN h : a # b => h[a] # h[b]}

IsMember(S, x) == x \in S

\* list(S) for a set S of str, iterated in hash order h.
ListOfSet(S, h) ==
    LET F[k \in 0..Len(h)] ==
            IF k = 0 THEN <<>>
            ELSE IF IsMember(S, h[k]) THEN Append(F[k - 1], h[k])
            ELSE F[k - 1]
    IN  F[Len(h)]

-----------------------------------------------------------------------------
(* Versions.                                                               *)

\* float(version) for a decimal literal with at most two fractional digits,
\* in hundredths.  Distinct literals of the model are distinct floats in the
\* same order.
ParseFloat(lit) ==
    LET f == lit.frac
        hundredths ==
            IF Len(f) = 0 THEN 0
            ELSE IF Len(f) = 1 THEN f[1] * 10
            ELSE f[1] * 10 + f[2]
        magnitude == lit.whole * 100 + hundredths
    IN  IF lit.neg THEN 0 - magnitude ELSE magnitude

\* f'{x:.1f}': one fractional digit, the exact value rounded half to even
\* (the ties of the model, .25 and .75, are exact in binary).
FormatOneDigit(h) ==
    LET a == IF h < 0 THEN 0 - h ELSE h
        q == a \div 10
        r == a % 10
        tenths == IF r < 5 THEN q
                  ELSE IF r > 5 THEN q + 1
                  ELSE IF q % 2 = 0 THEN q ELSE q + 1
    IN  [neg |-> h < 0, whole |-> tenths \div 10, frac |-> <<tenths % 10>>]

\* not max_version: None and 0.0 are both falsy.
Falsy(mv) == mv = <<>> \/ mv[1] = 0

\* max(a, b): the first argument unless the second is greater.
PyMax(a, b) == IF b > a THEN b ELSE a

-----------------------------------------------------------------------------
(* Documents.                                                              *)

Lit(neg, whole, frac) == [neg |-> neg, whole |-> whole, frac |-> frac]

TypeRec(name, members) == [name |-> name, members |-> members]
Str(m) == [kind |-> "str", str |-> m]
List(s) == [kind |-> "list", items |-> s]
Dict(r) == [kind |-> "dict", rec |-> r]

BasePackage ==
    [fullName    |-> <<"A">>,
     description |-> <<>>,
     version     |-> <<Lit(FALSE, 58, <<0>>)>>,
     types       |-> <<Dict(TypeRec("ApexClass", Str("Foo")))>>,
     xmlns       |-> "x"]

Doc(p) == [Package |-> <<p>>]

\* Version strings "-1.0", "0", "59", "58.25" (the base has "58.0").
VersionPool ==
    {Lit(TRUE, 1, <<0>>), Lit(FALSE, 0, <<>>), Lit(FALSE, 59, <<>>),
     Lit(FALSE, 58, <<2, 5>>)}

\* Shapes of the types tag: one record with a member list out of order, a
\* list of records out of order, a list with a repeated member.
TypesPool ==
    {Dict(TypeRec("ApexClass", List(<<"bar", "Foo", "Bar">>))),
     List(<<TypeRec("Layout", Str("bar")), TypeRec("ApexClass", Str("Bar"))>>),
     List(<<TypeRec("Layout", List(<<"Foo", "Foo">>))>>)}

\* The documents the Collector may hand over: the base package, and each
\* document that differs from it in one respect.
Docs ==
    {Doc(BasePackage)}
    \cup {[Package |-> <<>>]}
    \cup {Doc([BasePackage EXCEPT !.version = <<>>])}
    \cup {Doc([BasePackage EXCEPT !.types = <<>>])}
    \cup {Doc([BasePackage EXCEPT !.fullName = <<>>])}
    \cup {Doc([BasePackage EXCEPT !.fullName = <<"B">>])}
    \cup {Doc([BasePackage EXCEPT !.xmlns = "y"])}
    \cup {Doc([BasePackage EXCEPT !.version = <<v>>]) : v \in VersionPool}
    \cup {Doc([BasePackage EXCEPT !.types = <<t>>]) : t \in TypesPool}

\* main() calls merge() only with at least one package.xml found.
InputsFrom(D) == UNION {[1..n -> D] : n \in 1..MaxDocs}

Inputs == InputsFrom(Docs)

\* The documents that carry the name the data model gives every manifest.
NamedDocs == {d \in Docs : d.Package = <<>> \/ d.Package[1].fullName # <<>>}

-----------------------------------------------------------------------------
(* merge(): the fold.                                                      *)

\* Validation without the check of the types tag.
IsValidManifestNoTypesCheck(doc) ==
    /\ doc.Package # <<>>
    /\ doc.Package[1].version # <<>>

\* 'Package' in package_dict, 'version' and 'types' in package_dict['Package'].
IsValidManifest(doc) ==
    /\ doc.Package # <<>>
    /\ doc.Package[1].version # <<>>
    /\ doc.Package[1].types # <<>>

\* if type(mdt_types) == dict: mdt_types = [mdt_types]
NormalizeTypes(t) == IF t.kind = "dict" THEN <<t.rec>> ELSE t.items

\* if type(members) == str: members = [members]
NormalizeMembers(m) == IF m.kind = "str" THEN <<m.str>> ELSE m.items

Range(s) == {s[k] : k \in DOMAIN s}

HasKey(d, name) == \E k \in DOMAIN d : d[k].name = name

\* The body of  for mdt_type in mdt_types  for one mdt_type.
AddType(d, mdt_type) ==
    LET d1 == IF HasKey(d, mdt_type.name) THEN d
              ELSE Append(d, [name |-> mdt_type.name, members |-> {}])
        members == NormalizeMembers(mdt_type.members)
    IN  [k \in DOMAIN d1 |->
            IF d1[k].name = mdt_type.name
            THEN [d1[k] EXCEPT !.members = @ \cup Range(members)]
            ELSE d1[k]]

RECURSIVE AddTypes(_, _)
AddTypes(d, mdt_types) ==
    IF mdt_types = <<>> THEN d
    ELSE AddTypes(AddType(d, mdt_types[1]), Tail(mdt_types))

State(td, pn, mv, tp) ==
    [types_dict |-> td, package_names |-> pn, max_version |-> mv, template |-> tp]

EmptyState == State(<<>>, <<>>, <<>>, <<>>)

Raise(st, e) == [st |-> st, error |-> e]

\* The loop body after the validity check: one processed document.  A
\* subscript of a missing key raises KeyError where the statement stands.
FoldStep(st, doc) ==
    LET P == doc.Package[1] IN
    IF P.fullName = <<>> THEN Raise(st, "KeyError")
    ELSE
    LET s1 == [st EXCEPT !.package_names = Append(@, P.fullName[1])] IN
    IF P.version = <<>> THEN Raise(s1, "KeyError")
    ELSE
    LET v  == ParseFloat(P.version[1])
        m0 == IF Falsy(s1.max_version) THEN v ELSE s1.max_version[1]
        s2 == [s1 EXCEPT !.max_version = <<PyMax(m0, v)>>]
        s3 == [s2 EXCEPT !.template = IF @ = <<>> THEN <<doc>> ELSE @]
    IN
    IF P.types = <<>> THEN Raise(s3, "KeyError")
    ELSE Raise([s3 EXCEPT !.types_dict = AddTypes(@, NormalizeTypes(P.types[1]))],
               "")

-----------------------------------------------------------------------------
(* merge(): the rendering.                                                 *)

DictKeys(d) == [k \in DOMAIN d |-> d[k].name]

DictGet(d, name) == (CHOOSE k \in DOMAIN d : d[k].name = name)

\* The types tags left in place: the merged records are appended to the
\* template's own.
RenderedTypesNoReset(tp, d, h) ==
    LET ordered_names == ListSort(DictKeys(d))
    IN  NormalizeTypes(tp.Package[1].types[1]) \o
        [k \in DOMAIN ordered_names |->
            TypeRec(ordered_names[k],
                    List(ListSort(ListOfSet(d[DictGet(d, ordered_names[k])].members, h))))]

\* template['Package']['types'] = [] and the loop over ordered_names.
RenderedTypes(tp, d, h) ==
    LET ordered_names == ListSort(DictKeys(d))
    IN  [k \in DOMAIN ordered_names |->
            TypeRec(ordered_names[k],
                    List(ListSort(ListOfSet(d[DictGet(d, ordered_names[k])].members, h))))]

Header == "This package.xml was created by merging the following packages:"

\* The template after lines 142-164; package_names is already sorted.
Render(st, h) ==
    LET tp == st.template[1] IN
    Doc([tp.Package[1] EXCEPT
            !.fullName = <<"Merged_Package">>,
            !.description = <<<<Header>> \o st.package_names>>,
            !.version = <<FormatOneDigit(st.max_version[1])>>,
            !.types = <<List(RenderedTypes(tp, st.types_dict, h))>>])

\* The loop of merge() from document k on, as a function of the input.
RECURSIVE Fold(_, _, _)
Fold(st, docs, k) ==
    IF k > Len(docs) THEN Raise(st, "")
    ELSE IF ~IsValidManifest(docs[k]) THEN Raise(st, "")
    ELSE LET r == FoldStep(st, docs[k])
         IN  IF r.error # "" THEN r ELSE Fold(r.st, docs, k + 1)

Outcome(e, out) == [error |-> e, output |-> out]

\* merge(docs): what it raises, or the document it writes.
MergeOf(docs, h) ==
    LET r == Fold(EmptyState, docs, 1)
        st == [r.st EXCEPT !.package_names = ListSort(@)]
    IN  IF r.error # "" THEN Outcome(r.error, <<>>)
        ELSE IF st.template = <<>> THEN Outcome("TypeError", <<>>)
        ELSE Outcome("", <<Render(st, h)>>)

-----------------------------------------------------------------------------
(* The state machine.                                                      *)

AggState == State(types_dict, package_names, max_version, template)

\* merge() entered with the sequence docs.
Entered(docs) ==
    /\ packages = docs
    /\ i = 1
    /\ types_dict = <<>>
    /\ package_names = <<>>
    /\ max_version = <<>>
    /\ template = <<>>
    /\ pc = "loop"
    /\ error = ""
    /\ output = <<>>
    /\ previous = <<>>

Init == \E docs \in Inputs : Entered(docs)

InitNamed == \E docs \in InputsFrom(NamedDocs) : Entered(docs)

\* The document is not a valid package: break.
Skip ==
    /\ pc = "loop"
    /\ i <= Len(packages)
    /\ ~IsValidManifest(packages[i])
    /\ pc' = "finalize"
    /\ UNCHANGED <<packages, i, types_dict, package_names, max_version,
                   template, error, output, previous>>

\* One iteration on a valid package.
Process ==
    /\ pc = "loop"
    /\ i <= Len(packages)
    /\ IsValidManifest(packages[i])
    /\ LET r == FoldStep(AggState, packages[i]) IN
        /\ types_dict' = r.st.types_dict
        /\ package_names' = r.st.package_names
        /\ max_version' = r.st.max_version
        /\ template' = r.st.template
        /\ error' = r.error
        /\ pc' = IF r.error = "" THEN "loop" ELSE "raised"
        /\ i' = IF r.error = "" THEN i + 1 ELSE i
    /\ UNCHANGED <<packages, output, previous>>

\* The for loop runs out of documents.
LoopExhausted ==
    /\ pc = "loop"
    /\ i > Len(packages)
    /\ pc' = "finalize"
    /\ UNCHANGED <<packages, i, types_dict, package_names, max_version,
                   template, error, output, previous>>

\* Lines 140-182 with no template: the sort, then the subscript of None.
FinalizeRaises ==
    /\ pc = "finalize"
    /\ template = <<>>
    /\ package_names' = ListSort(package_names)
    /\ error' = "TypeError"
    /\ pc' = "raised"
    /\ UNCHANGED <<packages, i, types_dict, max_version, template, output,
                   previous>>

\* Lines 140-182: the merged package is rendered into the template and written.
Finalize ==
    /\ pc = "finalize"
    /\ template # <<>>
    /\ \E h \in HashOrders :
        LET st == [AggState EXCEPT !.package_names = ListSort(@)]
            out == Render(st, h)
        IN  /\ package_names' = st.package_names
            /\ template' = <<out>>
            /\ output' = <<out>>
    /\ pc' = "done"
    /\ UNCHANGED <<packages, i, types_dict, max_version, error, previous>>

\* merge() is run again on the package it wrote.
Remerge ==
    /\ pc = "done"
    /\ previous = <<>>
    /\ previous' = output
    /\ packages' = output
    /\ i' = 1
    /\ types_dict' = <<>>
    /\ package_names' = <<>>
    /\ max_version' = <<>>
    /\ template' = <<>>
    /\ pc' = "loop"
    /\ error' = ""
    /\ output' = <<>>

Next ==
    \/ Skip
    \/ Process
    \/ LoopExhausted
    \/ FinalizeRaises
    \/ Finalize
    \/ Remerge

Spec == Init /\ [][Next]_vars

\* Inputs in which every document with a root record has a name.
SpecNamed == InitNamed /\ [][Next]_vars

-----------------------------------------------------------------------------
(* Vocabulary of the properties.                                           *)

\* A document with the root record, the version field and the types field.
WellFormed(doc) ==
    /\ doc.Package # <<>>
    /\ doc.Package[1].version # <<>>
    /\ doc.Package[1].types # <<>>

Lacks(doc) == ~WellFormed(doc)

ValidIndices(docs) == {k \in DOMAIN docs : WellFormed(docs[k])}

Terminated == pc \in {"done", "raised"}

OutPackage == output[1].Package[1]

OutTypes == OutPackage.types[1].items

AnyOrder == CHOOSE h \in HashOrders : TRUE

TypeNames == {"ApexClass", "Layout"}

\* The valid documents of docs, in their order.
ValidOnly(docs) == SelectSeq(docs, WellFormed)

\* All orders of the sequence docs.
Perms(docs) ==
    {[k \in DOMAIN docs |-> docs[f[k]]] :
        f \in {g \in [DOMAIN docs -> DOMAIN docs] :
                 \A a, b \in DOMAIN docs : a # b => g[a] # g[b]}}

\* m is listed under type T in the document doc.
Lists(doc, T, m) ==
    \E r \in Range(NormalizeTypes(doc.Package[1].types[1])) :
        r.name = T /\ m \in Range(NormalizeMembers(r.members))

ListedInValid(docs, T, m) == \E k \in ValidIndices(docs) : Lists(docs[k], T, m)

Occurrences(s, x) == Cardinality({k \in DOMAIN s : s[k] = x})

MaxOfSet(S) == CHOOSE x \in S : \A y \in S : y <= x

VersionsOf(docs) ==
    {ParseFloat(docs[k].Package[1].version[1]) : k \in ValidIndices(docs)}

FirstValid(docs) == CHOOSE k \in ValidIndices(docs) : \A j \in ValidIndices(docs) : k <= j

StrictlyAscending(s) == \A k \in 1..(Len(s) - 1) : StrLess(s[k], s[k + 1])

-----------------------------------------------------------------------------
(* The properties.                                                         *)

\* C1: skip-and-continue.  An invalid document neither stops the fold nor
\* raises: merge ends as it ends on the same input with the invalid documents
\* taken out, so every valid document after an invalid one contributes its
\* types, members, name and version as the ones before it do.
C1_SkipAndContinue ==
    Terminated =>
        Outcome(error, output) = MergeOf(ValidOnly(packages), AnyOrder)

\* C2: empty-batch failure.  On an input with no valid document merge ends
\* in NoValidInputError and writes no document.
C2_EmptyBatchFailure ==
    (Terminated /\ ValidIndices(packages) = {}) =>
        (error = "NoValidInputError" /\ output = <<>>)

\* C3: version monotonicity.  With at least one valid document the output
\* version is the greatest version of the valid documents, with one
\* fractional digit; and after each fold step max_version is the greatest
\* version of the valid documents processed so far.
C3_VersionMonotonicity ==
    /\ (Terminated /\ ValidIndices(packages) # {}) =>
          /\ output # <<>>
          /\ OutPackage.version = <<FormatOneDigit(MaxOfSet(VersionsOf(packages)))>>
    /\ (pc = "loop" /\ i > 1) =>
          max_version = <<MaxOfSet(VersionsOf(SubSeq(packages, 1, i - 1)))>>

\* C4: dedup / union.  A member listed under a type in some valid document
\* is, in the output, once in the members of the one record of that type;
\* nothing else is in the output.
C4_DedupUnion ==
    (Terminated /\ ValidIndices(packages) # {}) =>
        /\ output # <<>>
        /\ \A T \in TypeNames, m \in MemberNames :
              LET recs == {k \in DOMAIN OutTypes : OutTypes[k].name = T} IN
              IF ListedInValid(packages, T, m)
              THEN /\ Cardinality(recs) = 1
                   /\ \A k \in recs : Occurrences(OutTypes[k].members.items, m) = 1
              ELSE \A k \in recs : Occurrences(OutTypes[k].members.items, m) = 0
        /\ \A k \in DOMAIN OutTypes :
              \E m \in MemberNames : ListedInValid(packages, OutTypes[k].name, m)

\* C5: canonical order.  In every output document the type records are in
\* strictly ascending order of name, and the members of each record are in
\* strictly ascending order.
C5_CanonicalOrder ==
    output # <<>> =>
        /\ StrictlyAscending([k \in DOMAIN OutTypes |-> OutTypes[k].name])
        /\ \A k \in DOMAIN OutTypes : StrictlyAscending(OutTypes[k].members.items)

\* A first merge whose output holds two types and a type of three members,
\* from an input whose first document lists its types out of order.
C5_Witness ==
    /\ pc = "done"
    /\ previous = <<>>
    /\ Len(OutTypes) = 2
    /\ \E k \in DOMAIN OutTypes : Len(OutTypes[k].members.items) = 3
    /\ packages[1].Package # <<>>
    /\ packages[1].Package[1].types # <<>>
    /\ packages[1].Package[1].types[1].kind = "list"
    /\ NormalizeTypes(packages[1].Package[1].types[1])[1].name = "Layout"

\* C6: commutativity.  With at least one valid document, merge of every
\* permutation of the input yields the same types and the same description.
C6_Commutativity ==
    (Terminated /\ ValidIndices(packages) # {}) =>
        \A p \in Perms(packages) :
            LET r == MergeOf(p, AnyOrder) IN
            /\ (r.output = <<>>) <=> (output = <<>>)
            /\ output # <<>> =>
                  /\ r.output[1].Package[1].types = OutPackage.types
                  /\ r.output[1].Package[1].description = OutPackage.description

\* C7 as stated: merge of the single output document D yields D, equal in
\* all fields.
C7_Idempotence ==
    (Terminated /\ previous # <<>>) => (pc = "done" /\ output = previous)

\* C7 amended: merge of [D] ends with an output equal to D in name, version,
\* types and the passed-through fields; its description is the header
\* followed by the one name "Merged_Package".
C7_IdempotenceButDescription ==
    (Terminated /\ previous # <<>>) =>
        /\ pc = "done"
        /\ OutPackage.fullName = previous[1].Package[1].fullName
        /\ OutPackage.version = previous[1].Package[1].version
        /\ OutPackage.types = previous[1].Package[1].types
        /\ OutPackage.xmlns = previous[1].Package[1].xmlns
        /\ OutPackage.description = <<<<Header, "Merged_Package">>>>

\* The second merge has ended on a D of two types merged from two packages.
C7_Witness ==
    /\ pc = "done"
    /\ previous # <<>>
    /\ Len(previous[1].Package[1].types[1].items) = 2
    /\ Len(previous[1].Package[1].description[1]) = 3
    /\ output # previous

\* C8: provenance.  With at least one valid document merge does not raise,
\* the output name is "Merged_Package" and the description is the header
\* followed by the names of the valid documents, one line each, ascending.
C8_Provenance ==
    (Terminated /\ ValidIndices(packages) # {}) =>
        /\ error = ""
        /\ output # <<>>
        /\ OutPackage.fullName = <<"Merged_Package">>
        /\ (\A k \in ValidIndices(packages) : packages[k].Package[1].fullName # <<>>) =>
              LET valid == ValidOnly(packages)
                  names == [k \in DOMAIN valid |-> valid[k].Package[1].fullName[1]]
              IN  OutPackage.description = <<<<Header>> \o SortedOf(names)>>

\* C9: a fold step on a document that lacks the root record, the version
\* field or the types field leaves types_dict, max_version, package_names
\* and template unchanged.
C9_InvalidLeavesAggregate ==
    [][(pc = "loop" /\ i <= Len(packages) /\ Lacks(packages[i])) =>
          UNCHANGED <<types_dict, package_names, max_version, template>>]_vars

\* The fold has stepped on an invalid document that carries a name, after a
\* valid document was folded in.
C9_Witness ==
    /\ pc = "finalize"
    /\ i <= Len(packages)
    /\ Lacks(packages[i])
    /\ packages[i].Package # <<>>
    /\ packages[i].Package[1].fullName # <<>>
    /\ package_names # <<>>
    /\ template # <<>>

\* C10: template selection and frame.  The template is the valid document of
\* lowest index, also when invalid documents precede it, and is never
\* replaced; the output's passed-through fields are that document's.
C10_TemplateSelection ==
    /\ (pc \in {"loop", "finalize"} /\ template # <<>>) =>
          template[1] = packages[FirstValid(packages)]
    /\ (Terminated /\ ValidIndices(packages) # {}) =>
          /\ output # <<>>
          /\ OutPackage.xmlns = packages[FirstValid(packages)].Package[1].xmlns

=============================================================================
